---- MODULE Spec2Model ----
(***************************************************************************)
(* A model of the moderation core of astrbot_plugin_qqadmin:               *)
(*   - BanproHandle.start_vote_mute / settle_vote / vote_mute  (vote)      *)
(*   - BanproHandle.spamming_ban                               (flood)     *)
(*   - JoinHandle.should_approve / event_monitoring            (join)      *)
(*   - BanproHandle.on_link_recall / _is_url_whitelisted       (link)      *)
(* Every coroutine is cut at its awaits: one action runs the code between  *)
(* two consecutive suspension points, as the asyncio event loop does.  An  *)
(* await that is the coroutine's last statement, with nothing after it, is *)
(* part of the action that reaches it, and awaits that follow one another  *)
(* with no statement between them are one suspension.                      *)
(* The vote model keeps its times relative to the clock: a record's expire *)
(* is expire_at - time.time(), a task's wake is what is left of its sleep. *)
(* Variables whose name starts with "g_" are history variables: they record *)
(* what the handlers did and are never read by the modelled code.          *)
(***************************************************************************)
EXTENDS Integers, Sequences, FiniteSets, TLC

VARIABLES
    now,            \* the wall clock, time.time()
    \* ---- vote ----
    conf_threshold, \* self.conf["vote_ban"]["threshold"]
    vote_cache,     \* self.vote_cache: group -> record (sid = 0: no entry)
    nextSid,        \* identity of the next record object start_vote_mute creates
    calls,          \* number of accepted start_vote_mute and vote_mute calls
    sv,             \* running start_vote_mute coroutines
    vm,             \* running vote_mute coroutines
    st,             \* the settle_vote tasks, one per created task
    g_sessions,     \* history: what start_vote_mute stored for each record
    g_stance,       \* history: the last stance each voter cast into the record of a group
    g_bans,         \* history: set_group_ban calls issued for each record
    g_resolved,     \* history: resolution decisions taken for each record (counted to 2)
    g_frees,        \* history: del self.vote_cache[group_id] that removed each record
    g_keyErrors,    \* history: del self.vote_cache[group_id] on a missing key
    g_reply,        \* history: the refusal the last step replied with, if it did
    \* ---- flood ----
    db,             \* self.db: the per-group settings store (QQAdminDB)
    msg_timestamps, \* self.msg_timestamps[group_id][sender_id]: deque(maxlen=5)
    last_banned_time, \* self.last_banned_time[group_id][sender_id]
    fh,             \* running spamming_ban coroutines
    g_obs,          \* history: the last observation and the run it belongs to
    g_mutes,        \* history: set_group_ban calls issued by spamming_ban
    g_banFailed,    \* history: the last set_group_ban of a (group, sender) raised
    cfgCalls,       \* number of changes of the ban-time settings
    g_cmd,          \* history: the last handle_spamming_ban_time call
    \* ---- join ----
    jdb,            \* JoinHandle.db._cfg: group -> join settings (GroupJoinData)
    no_match_reject, \* self.jconf["no_match_reject"]
    leave_notify,   \* self.jconf["leave_notify"]
    leave_block,    \* self.jconf["leave_block"]
    fail,           \* self._fail: "{group_id}_{user_id}" -> failed attempts
    g_decision,     \* history: the last should_approve call and what it returned
    g_run,          \* history: consecutive calls that no rule 1-4 decided, from counter 0
    \* ---- link recall ----
    ldb,            \* self.db: the "link_recall" and "link_whitelist" settings of each group
    lh,             \* running on_link_recall coroutines
    g_scan,         \* history: the last on_link_recall call that returned
    chk             \* one _is_url_whitelisted call: its arguments and its result

voteVars == <<conf_threshold, vote_cache, nextSid, calls, sv, vm, st, g_sessions,
              g_stance, g_bans, g_resolved, g_frees, g_keyErrors, g_reply>>

floodVars == <<db, msg_timestamps, last_banned_time, fh, g_obs, g_mutes, g_banFailed,
              cfgCalls, g_cmd>>

joinVars == <<jdb, no_match_reject, leave_notify, leave_block, fail, g_decision, g_run>>

linkVars == <<ldb, lh, g_scan, chk>>

vars == <<now, voteVars, floodVars, joinVars, linkVars>>

----------------------------------------------------------------------------
\* Bounds of the vote model.
MaxSessions == 2    \* start_vote_mute creates at most this many records
MaxCalls == 3       \* accepted start_vote_mute and vote_mute calls

\* self.conf["vote_ban"]["ttl"], in clock ticks
vote_ttl == 1

Groups == {"g1"}
Voters == {"v1", "v2"}
Thresholds == {1, 2}
\* (target, ban_time) arguments of start_vote_mute
StartInputs == {<<"t1", 10>>, <<"t2", 20>>}
StartHandlers == {"s1"}
VoteHandlers == {"h1", "h2"}
Sids == 1..MaxSessions

----------------------------------------------------------------------------
\* The votes dict of a record: voter -> bool.
EmptyVotes == [v \in {} |-> TRUE]

NoRecord == [sid |-> 0, target |-> "", votes |-> EmptyVotes, ban_time |-> 0,
             expire |-> 0, threshold |-> 0]

\* line 293: record["votes"][voter_id] = agree
UpsertBug(votes, voter, agree) ==
    [v \in (DOMAIN votes) \cup {voter} |-> IF v \in DOMAIN votes THEN votes[v] ELSE agree]
Upsert(votes, voter, agree) ==
    [v \in (DOMAIN votes) \cup {voter} |-> IF v = voter THEN agree ELSE votes[v]]

\* lines 249-250, 295-296: agree_count = sum(votes)
AgreeCount(votes) == Cardinality({v \in DOMAIN votes : votes[v]})
\* lines 251, 297: disagree_count = len(votes) - agree_count
DisagreeCount(votes) == Cardinality(DOMAIN votes) - AgreeCount(votes)

----------------------------------------------------------------------------
\* Coroutine frames.  A frame that is not running holds the idle value.
IdleSv == [pc |-> "idle", group |-> "", sid |-> 0]

IdleVm == [pc |-> "idle", group |-> "", sid |-> 0, target |-> "", ban_time |-> 0,
           threshold |-> 0, agree_count |-> 0, disagree_count |-> 0]

IdleSt == [pc |-> "none", group |-> "", wake |-> 0, rsid |-> 0, target |-> "",
           ban_time |-> 0, agree_count |-> 0, disagree_count |-> 0]

NoStance == [v \in Voters |-> "none"]

VoteInitWith(thresholds) ==
    /\ conf_threshold \in thresholds
    /\ vote_cache = [g \in Groups |-> NoRecord]
    /\ nextSid = 1
    /\ calls = 0
    /\ sv = [s \in StartHandlers |-> IdleSv]
    /\ vm = [h \in VoteHandlers |-> IdleVm]
    /\ st = [k \in Sids |-> IdleSt]
    /\ g_sessions = [k \in Sids |-> [group |-> "", rec |-> NoRecord]]
    /\ g_stance = [g \in Groups |-> NoStance]
    /\ g_bans = [k \in Sids |-> << >>]
    /\ g_resolved = [k \in Sids |-> [n |-> 0, outcomes |-> {}]]
    /\ g_frees = [k \in Sids |-> << >>]
    /\ g_keyErrors = [k \in Sids |-> 0]
    /\ g_reply = ""

\* line 223: group_id in self.vote_cache
SlotTakenBug(g) == FALSE
SlotTaken(g) == vote_cache[g].sid # 0

\* lines 246-247, 284-285: record = self.vote_cache.get(group_id); if not record
RecordMissingBug(g) == FALSE
RecordMissing(g) == vote_cache[g].sid = 0

\* lines 272, 313, 319: del self.vote_cache[group_id], executed by a coroutine that
\* works on record `bysid`; a missing key raises KeyError
Del(bysid, g) ==
    IF vote_cache[g].sid = 0
    THEN /\ g_keyErrors' = [g_keyErrors EXCEPT ![bysid] = @ + 1]
         /\ UNCHANGED <<vote_cache, g_frees, g_stance>>
    ELSE /\ vote_cache' = [vote_cache EXCEPT ![g] = NoRecord]
         /\ g_stance' = [g_stance EXCEPT ![g] = NoStance]
         /\ g_frees' = [g_frees EXCEPT ![vote_cache[g].sid] = Append(@, bysid)]
         /\ UNCHANGED g_keyErrors

\* lines 257, 303: event.bot.set_group_ban(group_id, user_id, duration) is called
IssueBan(bysid, g, user, duration) ==
    g_bans' = [g_bans EXCEPT ![bysid] =
                  Append(@, [group |-> g, user |-> user, duration |-> duration])]

\* lines 236, 252, 298: `await get_nickname(...)` (utils.py) suspends the coroutine
\* and then returns a nickname; it has no failing outcome
get_nickname_returns == TRUE

\* a coroutine working on record `bysid` takes one of the resolving branches
Resolve(bysid, outcome) ==
    g_resolved' = [g_resolved EXCEPT ![bysid] =
                      [n |-> IF @.n < 2 THEN @.n + 1 ELSE @.n,
                       outcomes |-> @.outcomes \cup {outcome}]]

----------------------------------------------------------------------------
\* start_vote_mute, lines 213-236: on a taken slot the refusal is sent and the
\* coroutine returns (lines 223-225); else the record is stored, up to
\* `await get_nickname`
StartVoteBegin(s, g, target, ban_time) ==
    /\ sv[s].pc = "idle"
    /\ IF SlotTaken(g)
       THEN /\ g_reply' = "AlreadyActive"
            /\ UNCHANGED <<vote_cache, nextSid, g_sessions, sv, calls>>
       ELSE /\ nextSid <= MaxSessions
            /\ calls < MaxCalls
            /\ calls' = calls + 1
            /\ LET rec == [sid |-> nextSid, target |-> target, votes |-> EmptyVotes,
                           ban_time |-> ban_time, expire |-> vote_ttl,
                           threshold |-> conf_threshold]
               IN  /\ vote_cache' = [vote_cache EXCEPT ![g] = rec]
                   /\ g_sessions' = [g_sessions EXCEPT
                                        ![nextSid] = [group |-> g, rec |-> rec]]
            /\ nextSid' = nextSid + 1
            /\ sv' = [sv EXCEPT ![s] = [pc |-> "nick", group |-> g, sid |-> nextSid]]
            /\ g_reply' = ""
    /\ UNCHANGED <<floodVars, joinVars, linkVars, now, conf_threshold, vm, st, g_stance, g_bans,
                   g_resolved, g_frees, g_keyErrors>>

\* lines 236-274: get_nickname and event.send returned (ok) or the send raised;
\* asyncio.create_task(settle_vote()), whose first statement is asyncio.sleep(ttl)
StartVoteAfterAnnounce(s, ok) ==
    /\ sv[s].pc = "nick"
    /\ get_nickname_returns
    /\ sv' = [sv EXCEPT ![s] = IdleSv]
    /\ st' = IF ok
             THEN [st EXCEPT ![sv[s].sid] =
                      [IdleSt EXCEPT !.pc = "sleep", !.group = sv[s].group,
                                     !.wake = vote_ttl]]
             ELSE st
    /\ UNCHANGED <<floodVars, joinVars, linkVars, now, conf_threshold, vote_cache, nextSid, calls, vm,
                   g_sessions, g_stance, g_bans, g_resolved, g_frees, g_keyErrors>>
    /\ g_reply' = ""

----------------------------------------------------------------------------
\* settle_vote, lines 245-252: the sleep is over; up to `await get_nickname`
SettleFire(k) ==
    /\ st[k].pc = "sleep"
    /\ st[k].wake = 0
    /\ LET record == vote_cache[st[k].group]
       IN  st' = [st EXCEPT ![k] =
                IF RecordMissing(st[k].group)
                THEN [IdleSt EXCEPT !.pc = "done"]
                ELSE [st[k] EXCEPT !.pc = "nick", !.rsid = record.sid,
                        !.target = record.target, !.ban_time = record.ban_time,
                        !.agree_count = AgreeCount(record.votes),
                        !.disagree_count = DisagreeCount(record.votes)]]
    /\ UNCHANGED <<floodVars, joinVars, linkVars, now, conf_threshold, vote_cache, nextSid, calls, sv,
                   vm, g_sessions, g_stance, g_bans, g_resolved, g_frees,
                   g_keyErrors>>
    /\ g_reply' = ""

\* line 255: agree_count > disagree_count
SettlePassesBug(agree_count, disagree_count) == agree_count >= disagree_count
SettlePasses(agree_count, disagree_count) == agree_count > disagree_count

\* lines 255-270: the nickname arrived; call set_group_ban or send the veto
SettleAfterNick(k) ==
    /\ st[k].pc = "nick"
    /\ get_nickname_returns
    /\ IF SettlePasses(st[k].agree_count, st[k].disagree_count)
       THEN /\ IssueBan(st[k].rsid, st[k].group, st[k].target, st[k].ban_time)
            /\ Resolve(st[k].rsid, "ExpiredPassed")
            /\ st' = [st EXCEPT ![k].pc = "ban"]
       ELSE /\ Resolve(st[k].rsid, "ExpiredRejected")
            /\ st' = [st EXCEPT ![k].pc = "send_rej"]
            /\ UNCHANGED g_bans
    /\ UNCHANGED <<floodVars, joinVars, linkVars, now, conf_threshold, vote_cache, nextSid, calls, sv,
                   vm, g_sessions, g_stance, g_frees, g_keyErrors>>
    /\ g_reply' = ""

\* lines 257-266, 272: set_group_ban and event.send returned, or one of them raised
\* (except: log); del
SettleAfterBan(k) ==
    /\ st[k].pc = "ban"
    /\ st' = [st EXCEPT ![k] = [IdleSt EXCEPT !.pc = "done"]]
    /\ Del(st[k].rsid, st[k].group)
    /\ UNCHANGED <<floodVars, joinVars, linkVars, now, conf_threshold, nextSid, calls, sv, vm,
                   g_sessions, g_bans, g_resolved>>
    /\ g_reply' = ""

\* lines 268-272: the veto message was sent (del) or raised (the task dies before del)
SettleAfterSendRej(k, ok) ==
    /\ st[k].pc = "send_rej"
    /\ st' = [st EXCEPT ![k] = [IdleSt EXCEPT !.pc = "done"]]
    /\ IF ok
       THEN Del(st[k].rsid, st[k].group)
       ELSE UNCHANGED <<vote_cache, g_frees, g_keyErrors, g_stance>>
    /\ UNCHANGED <<floodVars, joinVars, linkVars, now, conf_threshold, nextSid, calls, sv, vm,
                   g_sessions, g_bans, g_resolved>>
    /\ g_reply' = ""

----------------------------------------------------------------------------
\* line 301: agree_count >= threshold
PassesEarlyBug(agree_count, threshold) == agree_count > threshold
PassesEarly(agree_count, threshold) == agree_count >= threshold
\* line 317: disagree_count >= threshold
RejectsEarly(disagree_count, threshold) == disagree_count >= threshold

\* vote_mute, lines 281-298: without a record the refusal is sent and the coroutine
\* returns (lines 285-287); else the vote is stored and counted, up to
\* `await get_nickname`
VoteMuteBegin(h, g, voter, agree) ==
    /\ vm[h].pc = "idle"
    /\ IF RecordMissing(g)
       THEN /\ g_reply' = "NoActiveSession"
            /\ UNCHANGED <<vote_cache, g_stance, vm, calls>>
       ELSE LET record == vote_cache[g]
                votes == Upsert(record.votes, voter, agree)
            IN  /\ vote_cache' = [vote_cache EXCEPT ![g].votes = votes]
                /\ g_stance' = [g_stance EXCEPT ![g][voter] =
                                    IF agree THEN "agree" ELSE "disagree"]
                /\ calls < MaxCalls
                /\ calls' = calls + 1
                /\ vm' = [vm EXCEPT ![h] =
                            [pc |-> "nick", group |-> g, sid |-> record.sid,
                             target |-> record.target, ban_time |-> record.ban_time,
                             threshold |-> record.threshold,
                             agree_count |-> AgreeCount(votes),
                             disagree_count |-> DisagreeCount(votes)]]
                /\ g_reply' = ""
    /\ UNCHANGED <<floodVars, joinVars, linkVars, now, conf_threshold, nextSid, sv, st,
                   g_sessions, g_bans, g_resolved, g_frees, g_keyErrors>>

\* lines 298-327: the nickname arrived; branch on the counts taken before the await:
\* call set_group_ban, send the veto, or send the progress and return
VoteMuteAfterNick(h) ==
    /\ vm[h].pc = "nick"
    /\ get_nickname_returns
    /\ IF PassesEarly(vm[h].agree_count, vm[h].threshold)
       THEN /\ IssueBan(vm[h].sid, vm[h].group, vm[h].target, vm[h].ban_time)
            /\ Resolve(vm[h].sid, "Passed")
            /\ vm' = [vm EXCEPT ![h] = [IdleVm EXCEPT !.pc = "ban",
                                           !.group = vm[h].group, !.sid = vm[h].sid]]
            /\ g_reply' = ""
       ELSE IF RejectsEarly(vm[h].disagree_count, vm[h].threshold)
       THEN /\ Resolve(vm[h].sid, "Rejected")
            /\ vm' = [vm EXCEPT ![h] = [IdleVm EXCEPT !.pc = "send_rej",
                                           !.group = vm[h].group, !.sid = vm[h].sid]]
            /\ g_reply' = ""
            /\ UNCHANGED g_bans
       ELSE /\ vm' = [vm EXCEPT ![h] = IdleVm]
            /\ g_reply' = "Progress"
            /\ UNCHANGED <<g_bans, g_resolved>>
    /\ UNCHANGED <<floodVars, joinVars, linkVars, now, conf_threshold, vote_cache, nextSid, calls, sv,
                   st, g_sessions, g_stance, g_frees, g_keyErrors>>

\* lines 302-314: set_group_ban and event.send returned, or one of them raised
\* (except: log); finally: del; return
VoteMuteAfterBan(h) ==
    /\ vm[h].pc = "ban"
    /\ vm' = [vm EXCEPT ![h] = IdleVm]
    /\ Del(vm[h].sid, vm[h].group)
    /\ UNCHANGED <<floodVars, joinVars, linkVars, now, conf_threshold, nextSid, calls, sv, st,
                   g_sessions, g_bans, g_resolved>>
    /\ g_reply' = ""

\* lines 318-320: the veto was sent (del; return) or the send raised (no del)
VoteMuteAfterSendRej(h, ok) ==
    /\ vm[h].pc = "send_rej"
    /\ vm' = [vm EXCEPT ![h] = IdleVm]
    /\ IF ok
       THEN Del(vm[h].sid, vm[h].group)
       ELSE UNCHANGED <<vote_cache, g_frees, g_keyErrors, g_stance>>
    /\ UNCHANGED <<floodVars, joinVars, linkVars, now, conf_threshold, nextSid, calls, sv, st,
                   g_sessions, g_bans, g_resolved>>
    /\ g_reply' = ""

\* One tick of the clock passes while a record or a sleeping task exists.  A
\* settle_vote task whose sleep is over runs before the clock moves on.  A record
\* past its expire_at is kept at expire = -1.
TickVote ==
    /\ \/ \E g \in Groups : vote_cache[g].sid # 0 /\ vote_cache[g].expire >= 0
       \/ \E k \in Sids : st[k].pc = "sleep"
    /\ \A k \in Sids : st[k].pc = "sleep" => st[k].wake > 0
    /\ vote_cache' = [g \in Groups |->
            IF vote_cache[g].sid # 0 /\ vote_cache[g].expire >= 0
            THEN [vote_cache[g] EXCEPT !.expire = @ - 1] ELSE vote_cache[g]]
    /\ st' = [k \in Sids |->
            IF st[k].pc = "sleep" THEN [st[k] EXCEPT !.wake = @ - 1] ELSE st[k]]
    /\ UNCHANGED <<floodVars, joinVars, linkVars, now, conf_threshold, nextSid, calls, sv, vm,
                   g_sessions, g_stance, g_bans, g_resolved, g_frees, g_keyErrors>>
    /\ g_reply' = ""

----------------------------------------------------------------------------
\* Flood detector (spamming_ban).  The clock unit of the flood model is a quarter of
\* a second, so that gaps below and above self.spamming_interval (0.5 s) both exist.

\* self.spamming_count = 5
spamming_count == 5
\* self.spamming_interval = 0.5 (seconds), in clock ticks
spamming_interval == 2
TicksPerSecond == 2 * spamming_interval

MaxFloodTicks == 5  \* the flood clock runs from FloodEpoch to FloodEpoch + MaxFloodTicks
MaxCfgCalls == 1    \* changes of the ban-time settings in one run

\* values of the "spamming_ban_time" setting, in seconds
SpamBanTimes == {-1, 0, 1, 2}
\* time.time() at start-up: far enough from 0.0, the default of last_banned_time,
\* that no sender starts inside a cooldown
FloodEpoch == 3 * TicksPerSecond

SelfId == "bot"
Senders == {"u1", SelfId}
FloodHandlers == {"f1", "f2"}
FloodKeys == Groups \X Senders

IdleFh == [pc |-> "idle", group |-> "", sender |-> "", nonempty |-> FALSE,
           ban_time |-> 0]

NoObs == [kind |-> "none", group |-> "", sender |-> "", t |-> 0, ban |-> FALSE,
          ban_time |-> 0, fifo |-> << >>, streak |-> 0, sinceTrig |-> 0,
          trigDur |-> 0]

\* g_cmd: the arguments of the last handle_spamming_ban_time call and the
\* settings of its group before and after it
NoCmd == [done |-> FALSE, group |-> "", time |-> 0,
          before |-> [spamming_ban_time |-> 0, word_ban_time |-> 0],
          after |-> [spamming_ban_time |-> 0, word_ban_time |-> 0]]

FloodInitWith(banTimes) ==
    /\ db \in [Groups -> [spamming_ban_time : banTimes, word_ban_time : {0}]]
    /\ msg_timestamps = [k \in FloodKeys |-> << >>]
    /\ last_banned_time = [k \in FloodKeys |-> 0]
    /\ fh = [h \in FloodHandlers |-> IdleFh]
    /\ g_obs = [last |-> NoObs,
                streak |-> [k \in FloodKeys |-> 0],
                lastT |-> [k \in FloodKeys |-> 0],
                trigT |-> [k \in FloodKeys |-> 0],
                trigDur |-> [k \in FloodKeys |-> 0]]
    /\ g_mutes = {}
    /\ g_banFailed = [k \in FloodKeys |-> FALSE]
    /\ cfgCalls = 0
    /\ g_cmd = NoCmd

\* timestamps.append(now) on a deque(maxlen=self.spamming_count)
DequeAppend(q, x) ==
    IF Len(q) >= spamming_count THEN Append(Tail(q), x) ELSE Append(q, x)

\* lines 188-191: len(timestamps) >= count and every gap of the last `count`
\* timestamps is below self.spamming_interval
FloodDetectedBug(q) ==
    /\ Len(q) >= spamming_count - 1
    /\ \A i \in 1..(Len(q) - 1) : q[i + 1] - q[i] < spamming_interval
FloodDetected(q) ==
    /\ Len(q) >= spamming_count
    /\ LET recent == SubSeq(q, Len(q) - spamming_count + 1, Len(q))
       IN  \A i \in 1..(spamming_count - 1) : recent[i + 1] - recent[i] < spamming_interval

\* line 182: now - last_time < ban_time (ban_time is in seconds)
InCooldownBug(t, last_time, ban_time) == FALSE
InCooldown(t, last_time, ban_time) == t - last_time < ban_time * TicksPerSecond

\* lines 172-177: the message is the bot's own, the ban is switched off, or the
\* message chain is empty
SkipCheckBug(s, ban_time, nonempty) == ban_time <= 0 \/ ~nonempty
SkipCheck(s, ban_time, nonempty) == s = SelfId \/ ban_time <= 0 \/ ~nonempty

\* line 171: self.db.get(group_id, "spamming_ban_time", 0)
BanTimeReadBug(g) == db[g].word_ban_time
BanTimeRead(g) == db[g].spamming_ban_time

\* line 193: self.last_banned_time[group_id][sender_id] = now
MarkBannedBug(last, k, t) == last
MarkBanned(last, k, t) == [last EXCEPT ![k] = t]

\* line 171: the message arrived; spamming_ban awaits self.db.get
ObserveBegin(h, g, s, nonempty) ==
    /\ fh[h].pc = "idle"
    /\ fh' = [fh EXCEPT ![h] = [IdleFh EXCEPT !.pc = "get", !.group = g,
                                   !.sender = s, !.nonempty = nonempty]]
    /\ UNCHANGED <<voteVars, joinVars, linkVars, now, db, msg_timestamps, last_banned_time,
                   g_obs, g_mutes, g_banFailed, cfgCalls, g_cmd>>

\* lines 171-200: db.get returned; the checks, the append and the flood test run
\* without suspension, up to `await set_group_ban`
ObserveAfterGet(h) ==
    /\ fh[h].pc = "get"
    /\ LET g == fh[h].group
           s == fh[h].sender
           k == <<g, s>>
           ban_time == BanTimeRead(g)
           q == DequeAppend(msg_timestamps[k], now)
           streak == IF g_obs.streak[k] > 0 /\ now - g_obs.lastT[k] < spamming_interval
                     THEN IF g_obs.streak[k] < spamming_count
                          THEN g_obs.streak[k] + 1 ELSE spamming_count
                     ELSE 1
           obs == [NoObs EXCEPT !.group = g, !.sender = s, !.t = now,
                                !.ban_time = ban_time,
                                !.sinceTrig = now - g_obs.trigT[k],
                                !.trigDur = g_obs.trigDur[k]]
       IN  IF SkipCheck(s, ban_time, fh[h].nonempty)
           THEN /\ fh' = [fh EXCEPT ![h] = IdleFh]
                /\ g_obs' = [g_obs EXCEPT !.last = [obs EXCEPT !.kind = "skipped"]]
                /\ UNCHANGED <<msg_timestamps, last_banned_time, g_mutes, g_banFailed>>
           ELSE IF InCooldown(now, last_banned_time[k], ban_time)
           THEN /\ fh' = [fh EXCEPT ![h] = IdleFh]
                /\ g_obs' = [g_obs EXCEPT !.last = [obs EXCEPT !.kind = "cooldown"]]
                /\ UNCHANGED <<msg_timestamps, last_banned_time, g_mutes, g_banFailed>>
           ELSE IF FloodDetected(q)
           THEN /\ msg_timestamps' = [msg_timestamps EXCEPT ![k] = q]
                /\ last_banned_time' = MarkBanned(last_banned_time, k, now)
                /\ g_banFailed' = [g_banFailed EXCEPT ![k] = FALSE]
                /\ g_mutes' = g_mutes \cup
                      {[by |-> h, group |-> g, user |-> s, duration |-> ban_time,
                        t |-> now]}
                /\ fh' = [fh EXCEPT ![h].pc = "ban", ![h].ban_time = ban_time]
                /\ g_obs' = [g_obs EXCEPT
                      !.last = [obs EXCEPT !.kind = "counted", !.ban = TRUE,
                                           !.fifo = q, !.streak = streak],
                      !.streak[k] = 0, !.lastT[k] = now, !.trigT[k] = now,
                      !.trigDur[k] = ban_time]
           ELSE /\ msg_timestamps' = [msg_timestamps EXCEPT ![k] = q]
                /\ fh' = [fh EXCEPT ![h] = IdleFh]
                /\ g_obs' = [g_obs EXCEPT
                      !.last = [obs EXCEPT !.kind = "counted", !.fifo = q,
                                           !.streak = streak],
                      !.streak[k] = streak, !.lastT[k] = now]
                /\ UNCHANGED <<last_banned_time, g_mutes, g_banFailed>>
    /\ UNCHANGED <<voteVars, joinVars, linkVars, now, db, cfgCalls, g_cmd>>

\* line 207: timestamps.clear()
ClearTimestampsBug(h) == UNCHANGED msg_timestamps
ClearTimestamps(h) ==
    msg_timestamps' = [msg_timestamps EXCEPT ![<<fh[h].group, fh[h].sender>>] = << >>]

\* lines 196-207: set_group_ban, get_nickname and event.send returned, or one of
\* them raised (except: log); timestamps.clear()
ObserveAfterBan(h, ok) ==
    /\ fh[h].pc = "ban"
    /\ fh' = [fh EXCEPT ![h] = IdleFh]
    /\ ClearTimestamps(h)
    /\ g_banFailed' = [g_banFailed EXCEPT ![<<fh[h].group, fh[h].sender>>] = ~ok]
    /\ UNCHANGED <<voteVars, joinVars, linkVars, now, db, last_banned_time, g_obs, g_mutes,
                   cfgCalls, g_cmd>>

\* handle_spamming_ban_time, lines 154-156: with an integer argument,
\* db.set(gid, "word_ban_time", time)
HandleSpammingBanTime(g, time) ==
    /\ cfgCalls < MaxCfgCalls
    /\ cfgCalls' = cfgCalls + 1
    /\ db' = [db EXCEPT ![g].word_ban_time = time]
    /\ g_cmd' = [done |-> TRUE, group |-> g, time |-> time, before |-> db[g],
                 after |-> db'[g]]
    /\ UNCHANGED <<voteVars, joinVars, linkVars, now, msg_timestamps, last_banned_time, fh,
                   g_obs, g_mutes, g_banFailed>>

\* QQAdminDB.set(gid, "spamming_ban_time", time): the setting is owned by the
\* settings store and changed outside BanproHandle
StoreSetsSpammingBanTime(g, time) ==
    /\ cfgCalls < MaxCfgCalls
    /\ cfgCalls' = cfgCalls + 1
    /\ db[g].spamming_ban_time # time
    /\ db' = [db EXCEPT ![g].spamming_ban_time = time]
    /\ UNCHANGED <<voteVars, joinVars, linkVars, now, msg_timestamps, last_banned_time, fh,
                   g_obs, g_mutes, g_banFailed, g_cmd>>

TickFlood ==
    /\ now < FloodEpoch + MaxFloodTicks
    /\ now' = now + 1
    /\ UNCHANGED <<voteVars, floodVars, joinVars, linkVars>>

----------------------------------------------------------------------------
\* Join admission (JoinHandle.should_approve, called from event_monitoring).
\* Text is a sequence of characters, so that str.lower() and `in` are computed.

MaxFail == 3        \* self._fail is not counted beyond this

Users == {"u1", "u2"}
\* keywords an administrator may have configured (str.split() yields no empty one)
RejectLists == {<< >>, << <<"A">> >>}
AcceptLists == {<< >>, << <<"B">>, <<"a", "a">> >>}
MinLevels == {0, 2}
MaxTimes == {0, 3}
\* raw.get("comment"): None, or a string (possibly empty)
Texts == {<< >>, <<"a">>, <<"b">>, <<"c">>, <<"A", "b">>, <<"a", "A">>}
Comments == {[none |-> TRUE, text |-> << >>]} \cup
            {[none |-> FALSE, text |-> t] : t \in Texts}
\* the level event_monitoring passes: None, or an integer
Levels == {[known |-> FALSE, v |-> 0]} \cup {[known |-> TRUE, v |-> n] : n \in {1, 3}}

\* str.lower(), character by character
LowerChar(c) ==
    CASE c = "A" -> "a" [] c = "B" -> "b" [] c = "H" -> "h" [] c = "I" -> "i"
      [] c = "O" -> "o" [] c = "P" -> "p" [] c = "S" -> "s" [] c = "T" -> "t"
      [] OTHER -> c
Lower(t) == [i \in 1..Len(t) |-> LowerChar(t[i])]

\* `needle in hay` for two strings
Contains(hay, needle) ==
    \E i \in 0..(Len(hay) - Len(needle)) :
        \A j \in 1..Len(needle) : hay[i + j] = needle[j]

\* any(kw.lower() in lower_comment for kw in kws)
AnyKeyword(kws, lower_comment) ==
    \E i \in 1..Len(kws) : Contains(lower_comment, Lower(kws[i]))

\* `uid in list`
InList(x, l) == \E i \in 1..Len(l) : l[i] = x

\* lines 113-115: add_block_id stores [*get_block_ids(group_id), uid]
AddBlockId(block_ids, uid) == Append(block_ids, uid)

\* g_decision: the arguments of the last should_approve call, its result, the
\* set_group_add_request call that followed, and block_ids and the attempt
\* counters as they were before the call
NoDecision == [group |-> "", user |-> "", comment |-> [none |-> TRUE, text |-> << >>],
               level |-> [known |-> FALSE, v |-> 0], approve |-> "", reason |-> "",
               call |-> "", block_ids |-> << >>, fail |-> << >>]

JoinInit ==
    /\ jdb \in [Groups -> [block_ids : {<< >>},
                           accept_keywords : AcceptLists,
                           reject_keywords : RejectLists,
                           min_level : MinLevels,
                           max_time : MaxTimes]]
    /\ no_match_reject \in BOOLEAN
    /\ leave_notify = FALSE
    /\ leave_block = FALSE
    /\ fail = [k \in Groups \X Users |-> 0]
    /\ g_decision = NoDecision
    /\ g_run = [k \in Groups \X Users |-> 0]

\* line 279: user_id in self.db.get_block_ids(group_id)
BlacklistedBug(cfg, user) == FALSE
Blacklisted(cfg, user) == InList(user, cfg.block_ids)

\* lines 287-291: comment is truthy and a reject keyword, lowered, is in
\* comment.lower()
HitsRejectBug(cfg, comment) ==
    /\ ~comment.none /\ comment.text # << >>
    /\ \E i \in 1..Len(cfg.reject_keywords) : Contains(comment.text, cfg.reject_keywords[i])
HitsReject(cfg, comment) ==
    /\ ~comment.none /\ comment.text # << >>
    /\ AnyKeyword(cfg.reject_keywords, Lower(comment.text))

\* lines 287-288, 296-297: comment is truthy, akws is not empty and an accept
\* keyword, lowered, is in comment.lower()
HitsAccept(cfg, comment) ==
    /\ ~comment.none /\ comment.text # << >>
    /\ cfg.accept_keywords # << >>
    /\ AnyKeyword(cfg.accept_keywords, Lower(comment.text))

\* line 284: min_level > 0 and user_level is not None and user_level < min_level
LevelTooLowBug(cfg, level) ==
    cfg.min_level > 0 /\ (IF level.known THEN level.v ELSE 0) < cfg.min_level
LevelTooLow(cfg, level) == cfg.min_level > 0 /\ level.known /\ level.v < cfg.min_level

\* line 305: if self._fail[key] >= max_fail
LimitReachedBug(counted, max_fail) == counted > max_fail
LimitReached(counted, max_fail) == counted >= max_fail

\* should_approve, lines 278-314.  cfg is self.db.get(group_id), failed is
\* self._fail.get(key, 0); the result carries the new block_ids and counter.
ShouldApprove(cfg, failed, nmr, user, comment, level) ==
    IF Blacklisted(cfg, user)
    THEN [approve |-> "False", reason |-> "blacklisted",
          block_ids |-> cfg.block_ids, failed |-> failed]
    ELSE IF LevelTooLow(cfg, level)
    THEN [approve |-> "False", reason |-> "level too low",
          block_ids |-> cfg.block_ids, failed |-> failed]
    ELSE IF HitsReject(cfg, comment)
    THEN [approve |-> "False", reason |-> "reject keyword",
          block_ids |-> AddBlockId(cfg.block_ids, user), failed |-> failed]
    ELSE IF HitsAccept(cfg, comment)
    THEN [approve |-> "True", reason |-> "accept keyword",
          block_ids |-> cfg.block_ids, failed |-> failed]
    ELSE LET counted == IF cfg.max_time > 0 THEN failed + 1 ELSE failed
         IN  IF cfg.max_time > 0 /\ LimitReached(counted, cfg.max_time)
             THEN [approve |-> "False", reason |-> "attempt limit",
                   block_ids |-> AddBlockId(cfg.block_ids, user), failed |-> counted]
             ELSE IF nmr
             THEN [approve |-> "False", reason |-> "no keyword matched",
                   block_ids |-> cfg.block_ids, failed |-> counted]
             ELSE [approve |-> "None", reason |-> "no keyword matched",
                   block_ids |-> cfg.block_ids, failed |-> counted]

\* lines 365-366: if approve is True: self._fail.pop(key, None)
PopOnApproveBug(approve, failed) == failed
PopOnApprove(approve, failed) == IF approve = "True" THEN 0 ELSE failed

\* lines 368-377: no call when approve is None, else
\* set_group_add_request(approve=approve)
SetGroupAddRequestBug(approve) == IF approve = "True" THEN "True" ELSE "False"
SetGroupAddRequest(approve) == IF approve = "None" THEN "none" ELSE approve

\* event_monitoring, lines 361-385: the join request is decided; an approval
\* clears the attempt counter; unless the decision is left to the moderators,
\* set_group_add_request is called
Decide(g, user, comment, level) ==
    /\ fail[<<g, user>>] < MaxFail
    /\ LET r == ShouldApprove(jdb[g], fail[<<g, user>>], no_match_reject,
                              user, comment, level)
       IN  /\ jdb' = [jdb EXCEPT ![g].block_ids = r.block_ids]
           /\ fail' = [fail EXCEPT ![<<g, user>>] = PopOnApprove(r.approve, r.failed)]
           /\ g_decision' = [group |-> g, user |-> user, comment |-> comment,
                             level |-> level, approve |-> r.approve,
                             reason |-> r.reason,
                             call |-> SetGroupAddRequest(r.approve),
                             block_ids |-> jdb[g].block_ids,
                             fail |-> fail]
           /\ g_run' = [g_run EXCEPT ![<<g, user>>] =
                    IF r.reason \notin {"attempt limit", "no keyword matched"} THEN 0
                    ELSE IF fail[<<g, user>>] = 0 THEN 1
                    ELSE IF @ > 0 /\ @ < MaxFail THEN @ + 1
                    ELSE 0]
    /\ UNCHANGED <<voteVars, floodVars, linkVars, now, no_match_reject, leave_notify,
                   leave_block>>

\* The blacklist as the leave branch of event_monitoring and the command
\* handle_block_ids change it.

MaxBlockIds == 2    \* block_ids is not appended to beyond this length
MaxToks == 2        \* tokens of one handle_block_ids command

\* the users of a list
SetOf(l) == {l[i] : i \in 1..Len(l)}

\* list(curr), line 257: the elements of the set, each once, in some order
ListsOf(S) == {l \in [1..Cardinality(S) -> S] : SetOf(l) = S}

\* a token of the command: "<id>", "+<id>" or "-<id>"
Toks == [op : {"", "+", "-"}, uid : Users]
ToksLists == UNION {[1..n -> Toks] : n \in 1..MaxToks}

\* lines 236-237: all(tok.isdigit() for tok in raw.split())
AllDigits(toks) == \A i \in 1..Len(toks) : toks[i].op = ""

\* lines 243-256: the loop over the tokens, on the set of the stored ids
RECURSIVE ApplyToks(_, _)
ApplyToks(curr, toks) ==
    IF toks = << >> THEN curr
    ELSE LET tok == Head(toks)
         IN  ApplyToks(CASE tok.op = "+" -> curr \cup {tok.uid}
                         [] tok.op = "-" -> curr \ {tok.uid}
                         [] OTHER -> curr,
                       Tail(toks))

\* event_monitoring, lines 387-399, after get_nickname has returned: with
\* leave_block the user that left is appended to block_ids
Leave(g, user) ==
    /\ leave_notify
    /\ leave_block
    /\ Len(jdb[g].block_ids) < MaxBlockIds
    /\ jdb' = [jdb EXCEPT ![g].block_ids = AddBlockId(@, user)]
    /\ UNCHANGED <<voteVars, floodVars, linkVars, now, no_match_reject, leave_notify,
                   leave_block, fail, g_decision, g_run>>

\* handle_block_ids, lines 225-257, with at least one token: tokens that are
\* all ids overwrite block_ids with the ids as given; otherwise the "+id" and
\* "-id" tokens are applied to the set of the stored ids and the set is stored
HandleBlockIds(g, toks) ==
    /\ IF AllDigits(toks)
       THEN jdb' = [jdb EXCEPT ![g].block_ids = [i \in 1..Len(toks) |-> toks[i].uid]]
       ELSE \E l \in ListsOf(ApplyToks(SetOf(jdb[g].block_ids), toks)) :
                jdb' = [jdb EXCEPT ![g].block_ids = l]
    /\ UNCHANGED <<voteVars, floodVars, linkVars, now, no_match_reject, leave_notify,
                   leave_block, fail, g_decision, g_run>>

----------------------------------------------------------------------------
\* Link recall: BanproHandle.on_link_recall and _is_url_whitelisted.
\* Strings are sequences of characters, as in the join model.

MaxUrls == 2    \* a message holds at most this many URLs

Http == <<"h", "t", "t", "p", ":", "/", "/">>
Https == <<"h", "t", "t", "p", "s", ":", "/", "/">>

\* URL_PATTERN is compiled with re.IGNORECASE and matches with and without scheme
Schemes == {<< >>, Http, Https,
            <<"H", "T", "T", "P", ":", "/", "/">>,
            <<"H", "t", "t", "p", "s", ":", "/", "/">>}
UrlHosts == {<<"a", ".", "i", "o">>, <<"s", ".", "a", ".", "i", "o">>,
             <<"x", "a", ".", "i", "o">>, <<"A", ".", "I", "O">>,
             <<"a", ".", "i", "o", ".", "i", "o">>}
UrlPaths == {<< >>, <<"/">>, <<"/", "a", ".", "i", "o">>}
Urls == {s \o h \o p : s \in Schemes, h \in UrlHosts, p \in UrlPaths}

\* values of the "link_whitelist" setting; [] is the default
Whitelists == {<< >>,
               << <<"a", ".", "i", "o">> >>,
               << <<"A", ".", "I", "O">> >>,
               << <<"x", ".", "i", "o">>, <<"i", "o">> >>,
               << <<"s", ".", "a", ".", "i", "o">>, <<"x", "a", ".", "i", "o">> >>}

\* str.startswith and str.endswith
StartsWith(s, p) == Len(s) >= Len(p) /\ SubSeq(s, 1, Len(p)) = p
EndsWith(s, p) == Len(s) >= Len(p) /\ SubSeq(s, Len(s) - Len(p) + 1, Len(s)) = p

\* lines 398-401: the scheme is cut off the lowercased URL
StripScheme(u) ==
    IF StartsWith(u, Http) THEN SubSeq(u, Len(Http) + 1, Len(u))
    ELSE IF StartsWith(u, Https) THEN SubSeq(u, Len(Https) + 1, Len(u))
    ELSE u

\* line 404: url_lower.split("/")[0]
FirstSegment(s) ==
    LET slashes == {i \in 1..Len(s) : s[i] = "/"}
    IN  IF slashes = {} THEN s
        ELSE SubSeq(s, 1, (CHOOSE i \in slashes : \A j \in slashes : i <= j) - 1)

\* line 410: domain == white_domain_lower or domain.endswith("." + white_domain_lower)
DomainMatchesBug(domain, white) == domain = white \/ EndsWith(domain, white)
DomainMatches(domain, white) == domain = white \/ EndsWith(domain, <<".">> \o white)

\* _is_url_whitelisted, lines 393-412
IsUrlWhitelisted(url, whitelist) ==
    LET domain == FirstSegment(StripScheme(Lower(url)))
    IN  \E i \in 1..Len(whitelist) : DomainMatches(domain, Lower(whitelist[i]))

\* URLs that occur in the messages of the model
MsgUrls == {<<"a", ".", "i", "o">>,
            Http \o <<"x", "a", ".", "i", "o">>,
            <<"H", "t", "t", "p", "s", ":", "/", "/">> \o
                <<"s", ".", "a", ".", "i", "o", "/">>}

\* list(URL_PATTERN.finditer(event.message_str)): the URLs of a message, in order
RECURSIVE SeqsUpTo(_, _)
SeqsUpTo(S, n) ==
    IF n = 0 THEN {<< >>}
    ELSE LET shorter == SeqsUpTo(S, n - 1)
         IN  shorter \cup {Append(q, x) : q \in shorter, x \in S}
Messages == SeqsUpTo(MsgUrls, MaxUrls)

LinkHandlers == {"l1"}

IdleLh == [pc |-> "idle", group |-> "", urls |-> << >>, enabled |-> FALSE,
           whitelist |-> << >>, checked |-> 0, deletes |-> 0]

NoScan == [done |-> FALSE, group |-> "", urls |-> << >>, enabled |-> FALSE,
           whitelist |-> << >>, checked |-> 0, deletes |-> 0]

NoCheck == [url |-> << >>, whitelist |-> << >>, done |-> FALSE, result |-> FALSE]

LinkInitWith(recall, whitelists) ==
    /\ ldb \in [Groups -> [link_recall : recall, link_whitelist : whitelists]]
    /\ lh = [h \in LinkHandlers |-> IdleLh]
    /\ g_scan = NoScan

\* lines 379-391: the loop over url_matches; it returns at the first URL that is
\* not whitelisted, after one delete_msg call
ScanBug(urls, whitelist) ==
    [checked |-> Len(urls),
     deletes |-> Cardinality({i \in 1..Len(urls) : ~IsUrlWhitelisted(urls[i], whitelist)})]
Scan(urls, whitelist) ==
    LET bad == {i \in 1..Len(urls) : ~IsUrlWhitelisted(urls[i], whitelist)}
    IN  IF bad = {} THEN [checked |-> Len(urls), deletes |-> 0]
        ELSE [checked |-> CHOOSE i \in bad : \A j \in bad : i <= j, deletes |-> 1]

\* what a finished on_link_recall leaves in g_scan
Finished(frame) ==
    [done |-> TRUE, group |-> frame.group, urls |-> frame.urls,
     enabled |-> frame.enabled, whitelist |-> frame.whitelist,
     checked |-> frame.checked, deletes |-> frame.deletes]

\* line 367: a group message arrived; on_link_recall awaits db.get("link_recall")
LinkBegin(h, g, urls) ==
    /\ lh[h].pc = "idle"
    /\ lh' = [lh EXCEPT ![h] = [IdleLh EXCEPT !.pc = "get_recall", !.group = g,
                                   !.urls = urls]]
    /\ UNCHANGED <<voteVars, floodVars, joinVars, now, ldb, g_scan, chk>>

\* lines 367-377: the setting is read; without it, or without a URL in the
\* message, the handler returns, else it awaits db.get("link_whitelist")
LinkAfterRecall(h) ==
    /\ lh[h].pc = "get_recall"
    /\ LET frame == [lh[h] EXCEPT !.enabled = ldb[lh[h].group].link_recall]
       IN  IF ~frame.enabled \/ frame.urls = << >>
           THEN /\ lh' = [lh EXCEPT ![h] = IdleLh]
                /\ g_scan' = Finished(frame)
           ELSE /\ lh' = [lh EXCEPT ![h] = [frame EXCEPT !.pc = "get_whitelist"]]
                /\ UNCHANGED g_scan
    /\ UNCHANGED <<voteVars, floodVars, joinVars, now, ldb, chk>>

\* lines 377-387: the whitelist is read and the URLs are checked in order; the
\* first one that is not whitelisted makes the handler await delete_msg
LinkAfterWhitelist(h) ==
    /\ lh[h].pc = "get_whitelist"
    /\ LET whitelist == ldb[lh[h].group].link_whitelist
           r == Scan(lh[h].urls, whitelist)
           frame == [lh[h] EXCEPT !.whitelist = whitelist, !.checked = r.checked,
                                  !.deletes = r.deletes]
       IN  IF r.deletes = 0
           THEN /\ lh' = [lh EXCEPT ![h] = IdleLh]
                /\ g_scan' = Finished(frame)
           ELSE /\ lh' = [lh EXCEPT ![h] = [frame EXCEPT !.pc = "delete"]]
                /\ UNCHANGED g_scan
    /\ UNCHANGED <<voteVars, floodVars, joinVars, now, ldb, chk>>

\* lines 387-391: delete_msg returned, or raised (except: log); return
LinkAfterDelete(h, ok) ==
    /\ lh[h].pc = "delete"
    /\ lh' = [lh EXCEPT ![h] = IdleLh]
    /\ g_scan' = Finished(lh[h])
    /\ UNCHANGED <<voteVars, floodVars, joinVars, now, ldb, chk>>

\* handle_link_recall, lines 338-339: db.set(gid, "link_recall", mode)
SetLinkRecall(g, mode) ==
    /\ ldb[g].link_recall # mode
    /\ ldb' = [ldb EXCEPT ![g].link_recall = mode]
    /\ UNCHANGED <<voteVars, floodVars, joinVars, now, lh, g_scan, chk>>

\* handle_link_whitelist, lines 351-352: a non-empty list of domains is stored
SetLinkWhitelist(g, domains) ==
    /\ domains # << >>
    /\ ldb[g].link_whitelist # domains
    /\ ldb' = [ldb EXCEPT ![g].link_whitelist = domains]
    /\ UNCHANGED <<voteVars, floodVars, joinVars, now, lh, g_scan, chk>>

\* _is_url_whitelisted applied to the URL and the whitelist drawn at the start
CheckUrl ==
    /\ ~chk.done
    /\ chk' = [chk EXCEPT !.done = TRUE,
                          !.result = IsUrlWhitelisted(chk.url, chk.whitelist)]
    /\ UNCHANGED <<voteVars, floodVars, joinVars, now, ldb, lh, g_scan>>

----------------------------------------------------------------------------
\* The components share no state: each is explored under its own
\* specification, with the others at rest.
VoteRest == VoteInitWith({1})

FloodRest == FloodInitWith({0})

JoinRest ==
    /\ jdb = [g \in Groups |-> [block_ids |-> << >>, accept_keywords |-> << >>,
                                reject_keywords |-> << >>, min_level |-> 0,
                                max_time |-> 0]]
    /\ no_match_reject = FALSE
    /\ leave_notify = FALSE
    /\ leave_block = FALSE
    /\ fail = [k \in Groups \X Users |-> 0]
    /\ g_decision = NoDecision
    /\ g_run = [k \in Groups \X Users |-> 0]

LinkRest == LinkInitWith({FALSE}, {<< >>}) /\ chk = NoCheck

InitVote == now = 0 /\ VoteInitWith(Thresholds) /\ FloodRest /\ JoinRest /\ LinkRest

NextVote ==
    \/ \E s \in StartHandlers, g \in Groups, in \in StartInputs :
            StartVoteBegin(s, g, in[1], in[2])
    \/ \E s \in StartHandlers, ok \in BOOLEAN : StartVoteAfterAnnounce(s, ok)
    \/ \E k \in Sids : SettleFire(k)
    \/ \E k \in Sids : SettleAfterNick(k)
    \/ \E k \in Sids : SettleAfterBan(k)
    \/ \E k \in Sids, ok \in BOOLEAN : SettleAfterSendRej(k, ok)
    \/ \E h \in VoteHandlers, g \in Groups, v \in Voters, a \in BOOLEAN :
            VoteMuteBegin(h, g, v, a)
    \/ \E h \in VoteHandlers : VoteMuteAfterNick(h)
    \/ \E h \in VoteHandlers : VoteMuteAfterBan(h)
    \/ \E h \in VoteHandlers, ok \in BOOLEAN : VoteMuteAfterSendRej(h, ok)
    \/ TickVote

SpecVote == InitVote /\ [][NextVote]_vars

InitFlood ==
    now = FloodEpoch /\ VoteRest /\ FloodInitWith(SpamBanTimes) /\ JoinRest /\ LinkRest

NextFlood ==
    \/ \E h \in FloodHandlers, g \in Groups, s \in Senders, ne \in BOOLEAN :
            ObserveBegin(h, g, s, ne)
    \/ \E h \in FloodHandlers : ObserveAfterGet(h)
    \/ \E h \in FloodHandlers, ok \in BOOLEAN : ObserveAfterBan(h, ok)
    \/ TickFlood

SpecFlood == InitFlood /\ [][NextFlood]_vars

\* the flood detector, one message at a time, while the ban-time settings are
\* changed
CmdTimes == {0, 2}
CfgHandlers == {"f1"}

NextFloodCfg ==
    \/ \E h \in CfgHandlers, g \in Groups, s \in Senders, ne \in BOOLEAN :
            ObserveBegin(h, g, s, ne)
    \/ \E h \in CfgHandlers : ObserveAfterGet(h)
    \/ \E h \in CfgHandlers, ok \in BOOLEAN : ObserveAfterBan(h, ok)
    \/ TickFlood
    \/ \E g \in Groups, t \in CmdTimes : HandleSpammingBanTime(g, t)
    \/ \E g \in Groups, t \in CmdTimes : StoreSetsSpammingBanTime(g, t)

SpecFloodCfg == InitFlood /\ [][NextFloodCfg]_vars

InitJoin == now = 0 /\ VoteRest /\ FloodRest /\ JoinInit /\ LinkRest

NextJoin ==
    \E g \in Groups, u \in Users, c \in Comments, l \in Levels : Decide(g, u, c, l)

SpecJoin == InitJoin /\ [][NextJoin]_vars

\* Join admission together with the leave events and the blacklist command.
AdminMaxTimes == {0, 2}
AdminComments == {[none |-> TRUE, text |-> << >>], [none |-> FALSE, text |-> <<"a">>],
                  [none |-> FALSE, text |-> <<"b">>]}
AdminLevels == {[known |-> FALSE, v |-> 0]}

InitJoinAdmin ==
    /\ now = 0 /\ VoteRest /\ FloodRest /\ LinkRest
    /\ jdb \in [Groups -> [block_ids : {<< >>},
                           accept_keywords : {<< <<"B">> >>},
                           reject_keywords : {<< <<"A">> >>},
                           min_level : {0},
                           max_time : AdminMaxTimes]]
    /\ no_match_reject \in BOOLEAN
    /\ leave_notify \in BOOLEAN
    /\ leave_block \in BOOLEAN
    /\ fail = [k \in Groups \X Users |-> 0]
    /\ g_decision = NoDecision
    /\ g_run = [k \in Groups \X Users |-> 0]

NextJoinAdmin ==
    \/ \E g \in Groups, u \in Users, c \in AdminComments, l \in AdminLevels :
            Decide(g, u, c, l)
    \/ \E g \in Groups, u \in Users : Leave(g, u)
    \/ \E g \in Groups, toks \in ToksLists : HandleBlockIds(g, toks)

SpecJoinAdmin == InitJoinAdmin /\ [][NextJoinAdmin]_vars

InitLink ==
    /\ now = 0 /\ VoteRest /\ FloodRest /\ JoinRest
    /\ LinkInitWith(BOOLEAN, Whitelists) /\ chk = NoCheck

NextLink ==
    \/ \E h \in LinkHandlers, g \in Groups, urls \in Messages : LinkBegin(h, g, urls)
    \/ \E h \in LinkHandlers : LinkAfterRecall(h)
    \/ \E h \in LinkHandlers : LinkAfterWhitelist(h)
    \/ \E h \in LinkHandlers, ok \in BOOLEAN : LinkAfterDelete(h, ok)
    \/ \E g \in Groups, mode \in BOOLEAN : SetLinkRecall(g, mode)
    \/ \E g \in Groups, domains \in Whitelists : SetLinkWhitelist(g, domains)

SpecLink == InitLink /\ [][NextLink]_vars

InitUrl ==
    /\ now = 0 /\ VoteRest /\ FloodRest /\ JoinRest
    /\ LinkInitWith({FALSE}, {<< >>})
    /\ chk \in [url : Urls, whitelist : Whitelists, done : {FALSE}, result : {FALSE}]

NextUrl == CheckUrl

SpecUrl == InitUrl /\ [][NextUrl]_vars

----------------------------------------------------------------------------
\* Properties of the vote.

\* the set_group_ban call that mutes the target of record k for its ban_time
SessionBan(k) == [group |-> g_sessions[k].group, user |-> g_sessions[k].rec.target,
                  duration |-> g_sessions[k].rec.ban_time]

\* voters whose last vote, as `stances` records it, is `stance`
StanceCount(stances, stance) == Cardinality({v \in Voters : stances[v] = stance})

\* C1: under every interleaving each record is resolved at most once, by one
\* branch only; set_group_ban is called at most once for it, it is removed from
\* vote_cache at most once and no del finds the key missing.
C1_ResolvedOnce ==
    \A k \in Sids :
        /\ g_resolved[k].n <= 1
        /\ Len(g_bans[k]) <= 1
        /\ Len(g_frees[k]) <= 1
        /\ g_keyErrors[k] = 0

\* C2: a vote_mute call that leaves the record with at least `threshold` agreeing
\* voters calls set_group_ban for the record's target and ban_time and resolves
\* the record as Passed; when that handler returns the slot of the group is
\* empty, and a vote_mute call on an empty slot is refused and gets no further.
C2_ThresholdPasses ==
    [][\A h \in VoteHandlers :
        /\ (vm[h].pc = "idle" /\ vm'[h].pc = "nick")
              => vm'[h].agree_count = StanceCount(g_stance'[vm'[h].group], "agree")
        /\ (vm[h].pc = "nick" /\ vm'[h].pc # "nick"
                /\ vm[h].agree_count >= g_sessions[vm[h].sid].rec.threshold)
              => /\ vm'[h].pc = "ban"
                 /\ g_bans'[vm[h].sid] = Append(g_bans[vm[h].sid], SessionBan(vm[h].sid))
                 /\ "Passed" \in g_resolved'[vm[h].sid].outcomes
        /\ (vm[h].pc = "ban" /\ vm'[h].pc = "idle")
              => vote_cache'[vm[h].group] = NoRecord
        /\ (vm[h].pc = "idle" /\ vm'[h].pc # "idle")
              => vote_cache[vm'[h].group].sid # 0
      ]_vars

\* C2 witness: with threshold 2 a handler has called set_group_ban on two agreeing
\* votes, has returned, and the next vote_mute was refused.
C2_Witness ==
    /\ conf_threshold = 2
    /\ g_reply = "NoActiveSession"
    /\ Len(g_bans[1]) = 1
    /\ g_frees[1] = <<1>>
    /\ \A h \in VoteHandlers : vm[h].pc = "idle"

\* C3: of the records of a group that were stored and not removed, only the one in
\* the slot exists; a start_vote_mute call on a taken slot is refused and changes
\* neither the record nor the settle_vote tasks, and stores no record.
C3_OneSessionPerGroup ==
    /\ [](\A k \in Sids :
            (k < nextSid /\ g_frees[k] = << >>)
                => vote_cache[g_sessions[k].group] = [g_sessions[k].rec EXCEPT
                        !.votes = vote_cache[g_sessions[k].group].votes,
                        !.expire = vote_cache[g_sessions[k].group].expire])
    /\ [][g_reply' = "AlreadyActive"
            => /\ \E g \in Groups : vote_cache[g].sid # 0
               /\ UNCHANGED <<vote_cache, st, sv, nextSid, g_sessions>>]_vars

\* C3 witness: start_vote_mute was refused while the record in the slot held a vote.
C3_Witness ==
    /\ g_reply = "AlreadyActive"
    /\ \E g \in Groups : vote_cache[g].sid # 0 /\ DOMAIN vote_cache[g].votes # {}

\* C4: a vote_mute call on a group without a record is refused; the step stores no
\* record and no vote, calls no set_group_ban and leaves every handler where it was.
C4_NoSessionNoChange ==
    [][/\ g_reply' = "NoActiveSession"
            => /\ \E g \in Groups : vote_cache[g].sid = 0
               /\ UNCHANGED <<vote_cache, g_stance, g_bans, g_resolved, vm, st, sv,
                              nextSid, calls>>
       /\ \A h \in VoteHandlers :
            (vm[h].pc = "idle" /\ vm'[h].pc # "idle")
                => /\ vote_cache[vm'[h].group].sid # 0
                   /\ vm'[h].sid = vote_cache[vm'[h].group].sid
      ]_vars

\* C4 witness: a vote_mute call was refused before any record was ever stored.
C4_Witness == g_reply = "NoActiveSession" /\ nextSid = 1

\* C5: settle_vote, finding a record after its sleep, counts the votes stored in it;
\* it calls set_group_ban for that record exactly when the agreeing voters
\* outnumber the disagreeing ones, and otherwise (ties included) resolves the
\* record as rejected without a call.
C5_SettleMajority ==
    [][\A k \in Sids :
        /\ (st[k].pc = "sleep" /\ st'[k].pc = "nick")
              => /\ st'[k].rsid = vote_cache[st[k].group].sid
                 /\ st'[k].agree_count = StanceCount(g_stance[st[k].group], "agree")
                 /\ st'[k].disagree_count = StanceCount(g_stance[st[k].group], "disagree")
        /\ (st[k].pc = "nick" /\ st'[k].pc # "nick")
              => IF st[k].agree_count > st[k].disagree_count
                 THEN /\ st'[k].pc = "ban"
                      /\ g_bans'[st[k].rsid] =
                            Append(g_bans[st[k].rsid], SessionBan(st[k].rsid))
                      /\ "ExpiredPassed" \in g_resolved'[st[k].rsid].outcomes
                 ELSE /\ st'[k].pc = "send_rej"
                      /\ g_bans' = g_bans
                      /\ "ExpiredRejected" \in g_resolved'[st[k].rsid].outcomes
      ]_vars

\* C5 witness: settle_vote resolved a record with one vote on each side as rejected.
C5_Witness ==
    \E k \in Sids : /\ st[k].pc = "send_rej"
                    /\ st[k].agree_count = 1 /\ st[k].disagree_count = 1
                    /\ g_bans[st[k].rsid] = << >>

\* C6: the votes of a record hold the last stance of every voter: sum(votes) is the
\* number of voters whose last vote agreed, the rest are those whose last vote
\* disagreed, and vote_mute counts exactly these.
C6_LastStanceCounts ==
    /\ [](\A g \in Groups :
            vote_cache[g].sid # 0
                => /\ AgreeCount(vote_cache[g].votes) = StanceCount(g_stance[g], "agree")
                   /\ DisagreeCount(vote_cache[g].votes) = StanceCount(g_stance[g], "disagree")
                   /\ AgreeCount(vote_cache[g].votes) + DisagreeCount(vote_cache[g].votes)
                        = Cardinality({v \in Voters : g_stance[g][v] # "none"}))
    /\ [][\A h \in VoteHandlers :
            (vm[h].pc = "idle" /\ vm'[h].pc = "nick")
                => /\ vm'[h].agree_count = StanceCount(g_stance'[vm'[h].group], "agree")
                   /\ vm'[h].disagree_count = StanceCount(g_stance'[vm'[h].group], "disagree")
         ]_vars

\* C6 witness: a voter who agreed (the handler that counted it is still suspended)
\* has voted again and disagrees; the record holds that one vote only.
C6_Witness ==
    \E h \in VoteHandlers :
        /\ vm[h].pc = "nick" /\ vm[h].agree_count = 1 /\ vm[h].disagree_count = 0
        /\ vote_cache[vm[h].group].sid = vm[h].sid
        /\ Cardinality(DOMAIN vote_cache[vm[h].group].votes) = 1
        /\ AgreeCount(vote_cache[vm[h].group].votes) = 0


\* the vote_mute coroutine h is suspended on an external call with counts that
\* reach the threshold of its record
ResolvingSuspended(h) ==
    /\ vm[h].pc \in {"nick", "ban", "send_rej"}
    /\ \/ PassesEarly(vm[h].agree_count, vm[h].threshold)
       \/ RejectsEarly(vm[h].disagree_count, vm[h].threshold)

\* C17: while a vote_mute call whose vote reached the agree or the disagree
\* threshold is suspended on get_nickname, set_group_ban or event.send, the record
\* it resolves is no longer in vote_cache.
C17_FreedBeforeSuspension ==
    \A h \in VoteHandlers :
        ResolvingSuspended(h) => vote_cache[vm[h].group].sid # vm[h].sid

\* C18: the settle_vote task created for record k works on no other record than
\* k, and record k is removed from vote_cache only by coroutines that work on k.
C18_SettleOwnSessionOnly ==
    \A k \in Sids :
        /\ st[k].rsid \in {0, k}
        /\ \A i \in 1..Len(g_frees[k]) : g_frees[k][i] = k

\* a coroutine is running that will execute, or may still reach,
\* del self.vote_cache[g]
RemovalPending(g) ==
    \/ \E s \in StartHandlers : sv[s].pc = "nick" /\ sv[s].group = g
    \/ \E k \in Sids : st[k].group = g /\ st[k].pc \in {"sleep", "nick", "ban", "send_rej"}
    \/ \E h \in VoteHandlers : vm[h].group = g /\ vm[h].pc \in {"nick", "ban", "send_rej"}

\* C19: a record in vote_cache always has a coroutine that is going to remove
\* it: start_vote_mute that has not yet created the task, a settle_vote task that
\* has not finished, or a vote_mute call on its way.
C19_SlotAlwaysFreed ==
    \A g \in Groups : vote_cache[g].sid # 0 => RemovalPending(g)

\* C20: the sleep of the settle_vote task of a record ends no later than the
\* record's expire time, and a record that is in vote_cache after its expire time
\* is being settled by a task that found it.
C20_SettledAtExpiry ==
    \A g \in Groups :
        LET k == vote_cache[g].sid
        IN  k # 0 =>
              /\ st[k].pc = "sleep" => st[k].wake <= vote_cache[g].expire
              /\ vote_cache[g].expire < 0 =>
                    \E j \in Sids : st[j].rsid = k /\ st[j].pc \in {"nick", "ban", "send_rej"}

\* C21: once a vote_mute call that counted at least `threshold` disagreeing and
\* fewer than `threshold` agreeing voters has resolved its record as Rejected and
\* has returned, the record is no longer in vote_cache, no set_group_ban call was
\* made for it and no settle_vote task works on it.
C21_RejectedFreesSlot ==
    \A k \in Sids :
        (/\ "Rejected" \in g_resolved[k].outcomes
         /\ \A h \in VoteHandlers : ~(vm[h].sid = k /\ vm[h].pc # "idle"))
            => /\ vote_cache[g_sessions[k].group].sid # k
               /\ g_bans[k] = << >>
               /\ \A j \in Sids : st[j].rsid # k

----------------------------------------------------------------------------
\* Properties of the flood detector.  g_obs.last is the last observation that got
\* past `await self.db.get`: `streak` is the length (counted to spamming_count) of
\* the run of appended timestamps it ends, each less than spamming_interval after
\* the one before, none of them having triggered; `sinceTrig` and `trigDur` are
\* the time since the sender's last trigger and the ban_time of that trigger.

\* C7: an appended timestamp that completes a run of spamming_count timestamps
\* with gaps below spamming_interval triggers the ban, and an observation that
\* arrives less than ban_time after the sender's last trigger does not.
C7_RunTriggersOnce ==
    /\ (g_obs.last.kind = "counted" /\ g_obs.last.streak >= spamming_count)
          => g_obs.last.ban
    /\ (g_obs.last.kind # "none" /\ g_obs.last.trigDur > 0
            /\ g_obs.last.sinceTrig < g_obs.last.trigDur * TicksPerSecond)
          => ~g_obs.last.ban

\* C8: spamming_ban triggers only on a deque that holds spamming_count timestamps
\* whose last spamming_count entries are each less than spamming_interval after
\* the one before.
C8_NoTriggerWithoutRun ==
    g_obs.last.ban
        => /\ Len(g_obs.last.fifo) >= spamming_count
           /\ \A i \in 1..Len(g_obs.last.fifo) - 1 :
                i > Len(g_obs.last.fifo) - spamming_count
                    => g_obs.last.fifo[i + 1] - g_obs.last.fifo[i] < spamming_interval
           /\ g_obs.last.streak = spamming_count

\* C8 witness: spamming_ban has triggered.
C8_Witness == g_obs.last.ban /\ g_obs.last.kind = "counted"


\* the FIFO, the cooldown start and the mutes of the (group, sender) key k are as
\* they are at start-up
Untouched(k) ==
    /\ msg_timestamps[k] = << >>
    /\ last_banned_time[k] = 0
    /\ \A m \in g_mutes : <<m.group, m.user>> # k

\* C15: spamming_ban for a message of the bot itself, or in a group whose
\* spamming_ban_time is <= 0, returns without a ban and changes neither a
\* timestamp deque nor a last_banned_time nor the mutes issued; the keys of the
\* bot and of such groups stay as they were at start-up.
C15_SkippedUntouched ==
    /\ [](\A k \in FloodKeys :
            (k[2] = SelfId \/ db[k[1]].spamming_ban_time <= 0) => Untouched(k))
    /\ [][\A h \in FloodHandlers :
            (/\ fh[h].pc = "get"
             /\ fh'[h].pc # "get"
             /\ \/ fh[h].sender = SelfId
                \/ db[fh[h].group].spamming_ban_time <= 0)
                => /\ fh'[h].pc = "idle"
                   /\ g_obs'.last.ban = FALSE
                   /\ UNCHANGED <<msg_timestamps, last_banned_time, g_mutes>>]_vars

\* C15 witness: a message of the bot was observed in a group whose ban
\* is switched on while another sender's deque holds timestamps, and was skipped.
C15_Witness ==
    /\ g_obs.last.kind = "skipped"
    /\ g_obs.last.sender = SelfId
    /\ g_obs.last.ban_time > 0
    /\ ~g_obs.last.ban
    /\ \E k \in FloodKeys : Len(msg_timestamps[k]) >= 2
    /\ Untouched(<<g_obs.last.group, SelfId>>)

\* the (group, sender) key the spamming_ban coroutine h works on
FloodKeyOf(h) == <<fh[h].group, fh[h].sender>>

\* the set_group_ban calls issued for the key k
MutesOf(k) == {m \in g_mutes : <<m.group, m.user>> = k}

\* C22: the step of spamming_ban that detects the flood writes last_banned_time
\* and issues the one set_group_ban call before it suspends, no other step issues
\* one, and under every interleaving of the handlers two set_group_ban calls for
\* the same (group, sender) are at least the ban_time of the earlier one apart.
C22_OneMutePerBurst ==
    /\ [](\A m1 \in g_mutes : \A m2 \in g_mutes :
            (/\ m1 # m2
             /\ m1.group = m2.group /\ m1.user = m2.user
             /\ m1.t <= m2.t)
                => m2.t - m1.t >= m1.duration * TicksPerSecond)
    /\ [][/\ \A h \in FloodHandlers :
                (fh[h].pc = "get" /\ fh'[h].pc = "ban")
                    => /\ last_banned_time'[FloodKeyOf(h)] = now
                       /\ Cardinality(g_mutes') = Cardinality(g_mutes) + 1
                       /\ \E m \in g_mutes' \ g_mutes :
                            /\ <<m.group, m.user>> = FloodKeyOf(h)
                            /\ m.t = now
          /\ g_mutes' # g_mutes
                => \E h \in FloodHandlers : fh[h].pc = "get" /\ fh'[h].pc = "ban"
      ]_vars

\* C22 witness: while one handler is suspended in its set_group_ban call, a second
\* message of the same sender was observed and was stopped by the cooldown.
C22_Witness ==
    \E h \in FloodHandlers :
        /\ fh[h].pc = "ban"
        /\ g_obs.last.kind = "cooldown"
        /\ <<g_obs.last.group, g_obs.last.sender>> = FloodKeyOf(h)
        /\ Cardinality(MutesOf(FloodKeyOf(h))) = 1
        /\ Len(msg_timestamps[FloodKeyOf(h)]) = spamming_count

\* C23: when the set_group_ban call of a trigger raises, the handler clears the
\* deque and leaves last_banned_time at the trigger time and issues no further
\* call; afterwards no set_group_ban call is issued for that (group, sender)
\* sooner than ban_time after the trigger.
C23_FailedMuteKeepsState ==
    /\ [](\A k \in FloodKeys : g_banFailed[k] => last_banned_time[k] = g_obs.trigT[k])
    /\ [][/\ \A h \in FloodHandlers :
                (/\ fh[h].pc = "ban"
                 /\ fh'[h].pc = "idle"
                 /\ g_banFailed'[FloodKeyOf(h)])
                    => /\ msg_timestamps'[FloodKeyOf(h)] = << >>
                       /\ UNCHANGED <<last_banned_time, g_mutes>>
          /\ \A k \in FloodKeys :
                (g_banFailed[k] /\ MutesOf(k)' # MutesOf(k))
                    => now - g_obs.trigT[k] >= g_obs.trigDur[k] * TicksPerSecond
      ]_vars

\* C23 witness: after a set_group_ban call that raised, a message of the same
\* sender was observed during the cooldown, with the deque empty and no second
\* call issued.
C23_Witness ==
    \E k \in FloodKeys :
        /\ g_banFailed[k]
        /\ g_obs.last.kind = "cooldown"
        /\ <<g_obs.last.group, g_obs.last.sender>> = k
        /\ msg_timestamps[k] = << >>
        /\ Cardinality(MutesOf(k)) = 1
        /\ last_banned_time[k] = g_obs.trigT[k]

C25_CooldownUsesTriggerDuration ==
    (g_obs.last.kind \in {"cooldown", "counted"} /\ g_obs.last.trigDur > 0)
        => (g_obs.last.kind = "cooldown"
                <=> g_obs.last.sinceTrig < g_obs.last.trigDur * TicksPerSecond)

\* C25, amended: an observation that is not skipped stops at the cooldown check
\* exactly when it arrives less than the spamming_ban_time the group has at that
\* moment after last_banned_time, whatever the ban_time of the last trigger was.
C25_CooldownUsesCurrentDuration ==
    [][\A h \in FloodHandlers :
        (/\ fh[h].pc = "get"
         /\ fh'[h].pc # "get"
         /\ fh[h].sender # SelfId
         /\ fh[h].nonempty
         /\ db[fh[h].group].spamming_ban_time > 0)
            => (g_obs'.last.kind = "cooldown"
                    <=> now - last_banned_time[FloodKeyOf(h)]
                            < db[fh[h].group].spamming_ban_time * TicksPerSecond)
      ]_vars

\* C25 witness: the setting was raised after a trigger, and an observation that
\* arrived after the ban_time of that trigger had passed was stopped by the
\* cooldown check.
C25_Witness ==
    /\ g_obs.last.kind = "cooldown"
    /\ g_obs.last.trigDur > 0
    /\ g_obs.last.sinceTrig >= g_obs.last.trigDur * TicksPerSecond
    /\ g_obs.last.ban_time > g_obs.last.trigDur
    /\ db[g_obs.last.group].spamming_ban_time = g_obs.last.ban_time

\* C29: after handle_spamming_ban_time(group, t) with an integer t the
\* spamming_ban_time of the group is t and its word_ban_time is what it was.
C29_CommandSetsSpammingBanTime ==
    g_cmd.done
        => /\ g_cmd.after.spamming_ban_time = g_cmd.time
           /\ g_cmd.after.word_ban_time = g_cmd.before.word_ban_time

----------------------------------------------------------------------------
\* Properties of the join admission.  g_decision is the last should_approve call.

\* C9: should_approve for a user that is in block_ids returns False ("blacklisted")
\* whatever the comment and the level are, and leaves block_ids and the attempt
\* counters as they were.
C9_BlacklistedRejected ==
    (g_decision.approve # "" /\ InList(g_decision.user, g_decision.block_ids))
        => /\ g_decision.approve = "False"
           /\ g_decision.reason = "blacklisted"
           /\ jdb[g_decision.group].block_ids = g_decision.block_ids
           /\ fail = g_decision.fail

\* C9 witness: a blacklisted user was rejected although the level is high enough
\* and the comment holds an accept keyword.
C9_Witness ==
    /\ g_decision.approve = "False"
    /\ InList(g_decision.user, g_decision.block_ids)
    /\ g_decision.level.known /\ g_decision.level.v >= jdb[g_decision.group].min_level
    /\ ~g_decision.comment.none
    /\ \E i \in 1..Len(jdb[g_decision.group].accept_keywords) :
            Contains(Lower(g_decision.comment.text),
                     Lower(jdb[g_decision.group].accept_keywords[i]))

\* C10: for a user that is not in block_ids and whose level is not below min_level,
\* a comment that contains a reject keyword, letter case aside, is answered False
\* and puts the user into block_ids, also when it contains an accept keyword; the
\* attempt counters stay as they were.
C10_RejectKeywordBlocks ==
    (/\ g_decision.approve # ""
     /\ ~InList(g_decision.user, g_decision.block_ids)
     /\ ~(/\ jdb[g_decision.group].min_level > 0
          /\ g_decision.level.known
          /\ g_decision.level.v < jdb[g_decision.group].min_level)
     /\ ~g_decision.comment.none
     /\ \E i \in 1..Len(jdb[g_decision.group].reject_keywords) :
            Contains(Lower(g_decision.comment.text),
                     Lower(jdb[g_decision.group].reject_keywords[i])))
        => /\ g_decision.approve = "False"
           /\ InList(g_decision.user, jdb[g_decision.group].block_ids)
           /\ fail = g_decision.fail

\* C10 witness: a comment that holds a reject keyword in another letter case and an
\* accept keyword was rejected and its author blacklisted.
C10_Witness ==
    /\ g_decision.reason = "reject keyword"
    /\ g_decision.comment.text = <<"a", "A">>
    /\ jdb[g_decision.group].reject_keywords = << <<"A">> >>
    /\ jdb[g_decision.group].accept_keywords = << <<"B">>, <<"a", "a">> >>
    /\ ~InList(g_decision.user, g_decision.block_ids)
    /\ InList(g_decision.user, jdb[g_decision.group].block_ids)


\* the configuration of the group of the last decision as should_approve read it
DecisionCfg == [jdb[g_decision.group] EXCEPT !.block_ids = g_decision.block_ids]

\* the (group, user) key of the last decision
DecisionKey == <<g_decision.group, g_decision.user>>

\* C11: with max_time = n > 0 and no_match_reject off, the j-th of consecutive
\* requests of one user in one group that match none of the rules 1-4, counted
\* from an attempt counter of zero, is left to the moderators (None) while j < n,
\* and the n-th is answered False and puts the user into block_ids.
C11_AttemptLimit ==
    (/\ g_decision.approve # ""
     /\ jdb[g_decision.group].max_time > 0
     /\ ~no_match_reject
     /\ g_run[DecisionKey] >= 1
     /\ g_run[DecisionKey] <= jdb[g_decision.group].max_time)
        => IF g_run[DecisionKey] < jdb[g_decision.group].max_time
           THEN /\ g_decision.approve = "None"
                /\ jdb[g_decision.group].block_ids = g_decision.block_ids
           ELSE /\ g_decision.approve = "False"
                /\ InList(g_decision.user, jdb[g_decision.group].block_ids)

\* C11 witness: with max_time = 3 the third unmatched request in a row was
\* rejected and its author blacklisted.
C11_Witness ==
    /\ g_decision.approve = "False"
    /\ jdb[g_decision.group].max_time = 3
    /\ ~no_match_reject
    /\ g_run[DecisionKey] = 3
    /\ g_decision.fail[DecisionKey] = 2
    /\ ~InList(g_decision.user, g_decision.block_ids)
    /\ InList(g_decision.user, jdb[g_decision.group].block_ids)

\* C12: after a join request was approved the attempt counter of its (group, user)
\* is zero, whatever it was before, and no other counter has changed.
C12_ApprovalClearsCounter ==
    g_decision.approve = "True"
        => /\ fail[DecisionKey] = 0
           /\ \A k \in Groups \X Users :
                  k # DecisionKey => fail[k] = g_decision.fail[k]

\* C12 witness: a request was approved while the counter of its author was above
\* zero.
C12_Witness ==
    /\ g_decision.approve = "True"
    /\ g_decision.reason = "accept keyword"
    /\ g_decision.fail[DecisionKey] > 0
    /\ fail[DecisionKey] = 0

\* C16: a request that none of the rules 1-5 decides is answered False when
\* no_match_reject is on and None otherwise, and a request answered None is
\* followed by no set_group_add_request call.
C16_DefaultRule ==
    /\ (/\ g_decision.approve # ""
        /\ ~Blacklisted(DecisionCfg, g_decision.user)
        /\ ~(/\ DecisionCfg.min_level > 0
             /\ g_decision.level.known
             /\ g_decision.level.v < DecisionCfg.min_level)
        /\ ~HitsReject(DecisionCfg, g_decision.comment)
        /\ ~HitsAccept(DecisionCfg, g_decision.comment)
        /\ \/ DecisionCfg.max_time <= 0
           \/ g_decision.fail[DecisionKey] + 1 < DecisionCfg.max_time)
           => /\ g_decision.approve = IF no_match_reject THEN "False" ELSE "None"
              /\ g_decision.reason = "no keyword matched"
    /\ g_decision.approve = "None" => g_decision.call = "none"

\* C16 witness: an unmatched request below the attempt limit was left to the
\* moderators and no set_group_add_request call was made.
C16_Witness ==
    /\ g_decision.approve = "None"
    /\ g_decision.call = "none"
    /\ DecisionCfg.max_time > 0
    /\ ~g_decision.comment.none
    /\ ~no_match_reject

\* C26: for a user that is not in block_ids, with min_level > 0 and a known level
\* below min_level, should_approve returns False ("level too low") whatever the
\* comment holds, block_ids and the attempt counters stay as they were; with an
\* unknown level or min_level <= 0 no request is rejected for its level.
C26_LevelGateFirst ==
    g_decision.approve # "" =>
        /\ (/\ ~InList(g_decision.user, g_decision.block_ids)
            /\ DecisionCfg.min_level > 0
            /\ g_decision.level.known
            /\ g_decision.level.v < DecisionCfg.min_level)
              => /\ g_decision.approve = "False"
                 /\ g_decision.reason = "level too low"
                 /\ g_decision.call = "False"
                 /\ jdb[g_decision.group].block_ids = g_decision.block_ids
                 /\ fail = g_decision.fail
        /\ (~g_decision.level.known \/ DecisionCfg.min_level <= 0)
              => g_decision.reason # "level too low"

\* C26 witness: a request of a user of too low a level was rejected for the level
\* although its comment holds a reject keyword and an accept keyword.
C26_Witness ==
    /\ g_decision.reason = "level too low"
    /\ HitsReject(DecisionCfg, g_decision.comment)
    /\ HitsAccept(DecisionCfg, g_decision.comment)
    /\ ~InList(g_decision.user, jdb[g_decision.group].block_ids)
    /\ DecisionCfg.max_time > 0
    /\ fail[DecisionKey] = 0

\* no element of the list occurs twice
NoDuplicate(l) == \A i, j \in 1..Len(l) : l[i] = l[j] => i = j

\* C27: whatever join decisions, leave events and blacklist commands have
\* happened, no user id occurs more than once in the stored block_ids of a group.
C27_BlockIdsNoDuplicate == \A g \in Groups : NoDuplicate(jdb[g].block_ids)

\* C28: with max_time = n > 0, a user that is not in block_ids has an attempt
\* counter below n.
C28_CounterBelowLimit ==
    \A g \in Groups, u \in Users :
        (jdb[g].max_time > 0 /\ ~InList(u, jdb[g].block_ids))
            => fail[<<g, u>>] < jdb[g].max_time

----------------------------------------------------------------------------
\* Properties of the link recall.

\* the URL without a leading http:// or https://, whatever the letter case of the
\* scheme is
WithoutScheme(url) ==
    IF Len(url) >= 7 /\ Lower(SubSeq(url, 1, 7)) = Http THEN SubSeq(url, 8, Len(url))
    ELSE IF Len(url) >= 8 /\ Lower(SubSeq(url, 1, 8)) = Https
    THEN SubSeq(url, 9, Len(url))
    ELSE url

\* the text up to the first "/"
UpToSlash(t) ==
    LET n == CHOOSE n \in 0..Len(t) :
                 /\ \A i \in 1..n : t[i] # "/"
                 /\ n = Len(t) \/ t[n + 1] = "/"
    IN  SubSeq(t, 1, n)

\* d is entry, or ends with "." followed by entry
EqualOrSubdomain(d, entry) ==
    \/ d = entry
    \/ /\ Len(d) > Len(entry)
       /\ d[Len(d) - Len(entry)] = "."
       /\ \A i \in 1..Len(entry) : d[Len(d) - Len(entry) + i] = entry[i]

\* C13: _is_url_whitelisted(url, whitelist) is true exactly when the domain of
\* the URL (scheme cut off, text up to the first "/", lowercased) equals a
\* lowercased whitelist entry or ends with "." followed by it: s.a.io matches the
\* entry a.io, xa.io does not, and nothing matches the empty whitelist.
C13_WhitelistMatch ==
    chk.done =>
        /\ chk.result <=>
              \E i \in 1..Len(chk.whitelist) :
                  EqualOrSubdomain(Lower(UpToSlash(WithoutScheme(chk.url))),
                                   Lower(chk.whitelist[i]))
        /\ chk.whitelist = << >> => ~chk.result
        /\ (/\ chk.whitelist = << <<"a", ".", "i", "o">> >>
            /\ chk.url = Https \o <<"s", ".", "a", ".", "i", "o", "/">>) => chk.result
        /\ (/\ chk.whitelist = << <<"a", ".", "i", "o">> >>
            /\ chk.url = Https \o <<"x", "a", ".", "i", "o">>) => ~chk.result

\* C13 witness: a subdomain URL with an upper-case letter in its scheme and a
\* path was found whitelisted by an entry written in upper case.
C13_Witness ==
    /\ chk.done
    /\ chk.result
    /\ chk.url = <<"H", "t", "t", "p", "s", ":", "/", "/">> \o
                    <<"s", ".", "a", ".", "i", "o">> \o <<"/", "a", ".", "i", "o">>
    /\ chk.whitelist = << <<"A", ".", "I", "O">> >>

\* C14: an on_link_recall call that has returned issued one delete_msg call if
\* link_recall was on when it read it and some URL of the message is not
\* whitelisted by the whitelist it read, and none otherwise (setting off, no URL,
\* all URLs whitelisted); it checked the URLs up to the first one that is not
\* whitelisted and no further; a running call has issued at most one delete_msg.
C14_RecallOnFirstBadUrl ==
    /\ g_scan.done =>
          LET bad == {i \in 1..Len(g_scan.urls) :
                          ~IsUrlWhitelisted(g_scan.urls[i], g_scan.whitelist)}
          IN  /\ g_scan.deletes = IF g_scan.enabled /\ bad # {} THEN 1 ELSE 0
              /\ (g_scan.enabled /\ bad # {}) =>
                     /\ g_scan.checked \in bad
                     /\ \A i \in bad : g_scan.checked <= i
              /\ (g_scan.enabled /\ bad = {}) => g_scan.checked = Len(g_scan.urls)
              /\ ~g_scan.enabled => g_scan.checked = 0
    /\ \A h \in LinkHandlers :
          /\ lh[h].deletes <= 1
          /\ lh[h].pc = "delete" <=> lh[h].deletes = 1

\* C14 witness: a message of two URLs whose first is whitelisted and whose second
\* is not was recalled with one delete_msg call.
C14_Witness ==
    /\ g_scan.done
    /\ g_scan.enabled
    /\ Len(g_scan.urls) = 2
    /\ IsUrlWhitelisted(g_scan.urls[1], g_scan.whitelist)
    /\ ~IsUrlWhitelisted(g_scan.urls[2], g_scan.whitelist)
    /\ g_scan.checked = 2
    /\ g_scan.deletes = 1

====
